---------------------------- MODULE Spec2Model ----------------------------
(***************************************************************************)
(* A model of pytext/utils/torch.py: the UTF-8 character segmenter         *)
(* (utf8_chars), the Vocabulary token/index map, and the byte-pair         *)
(* encoder (BPE.load_vocab, BPE.bpe_token, BPE.tokenize).                  *)
(*                                                                         *)
(* Strings are sequences of byte values (TorchScript strings are byte      *)
(* strings); Vocabulary tokens, which the code only compares and stores,   *)
(* are TLA+ strings.  Python's 0-based indices are kept in the variables    *)
(* and translated to 1-based sequence positions where a sequence is read.  *)
(***************************************************************************)
EXTENDS Integers, Sequences, FiniteSets, TLC

VARIABLES
    \* utf8_chars: its argument s, its locals i (si) and chars, and where
    \* the call stands (upc).
    s, si, chars, upc,
    \* Vocabulary: its attributes vocab (vocab_list), unk_idx and idx; the
    \* arguments of the lookup under way, its result and its loop position
    \* (vk); the list a round trip started from (words, <<>> when the call
    \* is no round trip); where the call stands (vpc).
    vocab_list, unk_idx, idx, values, filter_token_list, possible_unk_token,
    result, vk, words, vpc,
    \* BPE: its attributes vocab and eow; tokenize's argument tokens, its
    \* loop position (tk) and its result bpe_tokens; bpe_token's argument
    \* token and its locals parts, i, should_break and max_pair_index; the
    \* number of merges of the call (merges) and the parts the last merge
    \* iteration scanned (before); where the call stands (pc).
    vocab, eow, tokens, tk, bpe_tokens, token, parts, i, should_break,
    merges, before, max_pair_index, pc

segVars == <<s, si, chars, upc>>
vocVars == <<vocab_list, unk_idx, idx, values, filter_token_list,
             possible_unk_token, result, vk, words, vpc>>
bpeVars == <<vocab, eow, tokens, tk, bpe_tokens, token, parts, i, should_break,
             merges, before, max_pair_index, pc>>
vars == <<segVars, vocVars, bpeVars>>

---------------------------------------------------------------------------
\* Bounds of the model.

\* utf8_chars: longest input string, in bytes.
MaxStrLen == 5
\* Vocabulary: longest token list.
MaxVocab == 3
\* Vocabulary: longest list handed to a lookup.
MaxValues == 2
\* BPE: longest word, in characters.
MaxWordLen == 4
\* BPE: most entries of a priority table.
MaxTableSize == 3

---------------------------------------------------------------------------
\* Helpers on sequences.

Min(a, b) == IF a < b THEN a ELSE b

Last(l) == l[Len(l)]

Range(l) == {l[n] : n \in 1..Len(l)}

SeqsUpTo(S, n) == UNION {[1..m -> S] : m \in 0..n}

\* The concatenation of a list of strings.
RECURSIVE Flatten(_)
Flatten(l) == IF l = <<>> THEN <<>> ELSE Head(l) \o Flatten(Tail(l))

\* Python's slice l[lo:hi] for 0 <= lo: it stops at the end of l.
Slice(l, lo, hi) == SubSeq(l, lo + 1, Min(hi, Len(l)))

\* Python's l.pop(n): l without the element at 0-based position n.
Pop(l, n) == SubSeq(l, 1, n) \o SubSeq(l, n + 2, Len(l))

---------------------------------------------------------------------------
\* utf8_chars

\* num_bytes with the first threshold at 0b11000000 instead of 0b11100000.
num_bytes_low_threshold(byte) ==
    IF byte < 128 THEN 1
    ELSE IF byte < 192 THEN 2
    ELSE IF byte < 240 THEN 3
    ELSE IF byte < 248 THEN 4
    ELSE IF byte < 252 THEN 5
    ELSE IF byte < 254 THEN 6
    ELSE IF byte < 255 THEN 7
    ELSE 8

\* The width the code reads off a start byte.
num_bytes(byte) ==
    IF byte < 128 THEN 1
    ELSE IF byte < 224 THEN 2
    ELSE IF byte < 240 THEN 3
    ELSE IF byte < 248 THEN 4
    ELSE IF byte < 252 THEN 5
    ELSE IF byte < 254 THEN 6
    ELSE IF byte < 255 THEN 7
    ELSE 8

\* utf8_chars as a function: the characters of str from byte offset n on.
RECURSIVE utf8_from(_, _)
utf8_from(str, n) ==
    IF n < Len(str)
    THEN <<Slice(str, n, n + num_bytes(str[n + 1]))>>
             \o utf8_from(str, n + num_bytes(str[n + 1]))
    ELSE <<>>

utf8_chars(str) == utf8_from(str, 0)

\* Start bytes of every width class the model's strings are built from:
\* 'h', the two bytes of U+00E9, and start bytes of widths 3, 4 and 8.
SegBytes == {104, 195, 169, 226, 240, 255}

VocIdle ==
    /\ vocab_list = <<>> /\ unk_idx = 0 /\ idx = <<>> /\ values = <<>>
    /\ filter_token_list = <<>> /\ possible_unk_token = <<>> /\ result = <<>>
    /\ vk = 0 /\ words = <<>> /\ vpc = "idle"

BpeIdle ==
    /\ vocab = <<>> /\ eow = <<>> /\ tokens = <<>> /\ tk = 0 /\ bpe_tokens = <<>>
    /\ token = <<>> /\ parts = <<>> /\ i = 0 /\ should_break = FALSE
    /\ merges = 0 /\ before = <<>> /\ max_pair_index = 0 /\ pc = "idle"

SegIdle == s = <<>> /\ si = 0 /\ chars = <<>> /\ upc = "idle"

InitSeg ==
    /\ VocIdle /\ BpeIdle
    /\ s \in SeqsUpTo(SegBytes, MaxStrLen)
    /\ si = 0
    /\ chars = <<>>
    /\ upc = "loop"

\* One iteration of `while i < len(s)`.
Utf8Step ==
    /\ upc = "loop"
    /\ si < Len(s)
    /\ LET byte == s[si + 1]
       IN  /\ chars' = Append(chars, Slice(s, si, si + num_bytes(byte)))
           /\ si' = si + num_bytes(byte)
    /\ UNCHANGED <<s, upc>>
    /\ UNCHANGED <<vocVars, bpeVars>>

\* The loop condition fails: return chars.
Utf8Return ==
    /\ upc = "loop"
    /\ ~(si < Len(s))
    /\ upc' = "done"
    /\ UNCHANGED <<s, si, chars>>
    /\ UNCHANGED <<vocVars, bpeVars>>

---------------------------------------------------------------------------
\* Vocabulary

\* Vocabulary tokens of the model; "z" is never put in a vocabulary.
Tokens == {"a", "b", "c"}
UnknownToken == "z"
UnkReplacement == "<unk>"
UnkIdxs == {0, 1}
\* Ids handed to lookup_words_1d: in range, past the end, and negative.
Ids == {-4, -1, 0, 2, 3, 5}
Filters == {<<>>, <<0, -1>>}

\* BuildIdx counting positions from one.
BuildIdxOneBased(l) ==
    [w \in Range(l) |-> CHOOSE n \in 1..Len(l) :
                            l[n] = w /\ \A m \in (n + 1)..Len(l) : l[m] # w]
\* {word: i for i, word in enumerate(vocab_list)}: a later duplicate wins.
BuildIdx(l) ==
    [w \in Range(l) |-> (CHOOSE n \in 1..Len(l) :
                            l[n] = w /\ \A m \in (n + 1)..Len(l) : l[m] # w) - 1]

\* dict.get(key, default)
DictGet(d, key, default) == IF key \in DOMAIN d THEN d[key] ELSE default

list_membership(item, list) == \E n \in 1..Len(list) : list[n] = item

\* l[n] of a Python list: a negative n counts from the end, and an n outside
\* -len(l)..len(l)-1 raises an index error.
IndexRaises(l, n) == n < -Len(l) \/ n >= Len(l)
ListAt(l, n) == IF n >= 0 THEN l[n + 1] ELSE l[Len(l) + n + 1]

\* The body of lookup_words_1d's loop for one id: whether it raises, and
\* the strings it appends to result.  An optional string is <<>> (None) or <<str>>.
WordRaises(l, unk, filter, put, value) ==
    /\ ~list_membership(value, filter)
    /\ IF value < Len(l)
       THEN IndexRaises(l, value)
       ELSE put = <<>> /\ IndexRaises(l, unk)
WordEmitted(l, unk, filter, put, value) ==
    IF list_membership(value, filter) THEN <<>>
    ELSE IF value < Len(l) THEN <<ListAt(l, value)>>
    ELSE IF put # <<>> THEN <<put[1]>>
    ELSE <<ListAt(l, unk)>>

\* Vocabulary.__init__
InitVoc ==
    /\ SegIdle /\ BpeIdle
    /\ vocab_list \in SeqsUpTo(Tokens, MaxVocab)
    /\ unk_idx \in UnkIdxs
    /\ idx = BuildIdx(vocab_list)
    /\ values = <<>> /\ filter_token_list = <<>> /\ possible_unk_token = <<>>
    /\ result = <<>> /\ vk = 0 /\ words = <<>>
    /\ vpc = "ready"

\* A call of lookup_indices_1d(values).
CallLookupIndices ==
    /\ vpc = "ready"
    /\ \E vs \in SeqsUpTo(Tokens \cup {UnknownToken}, MaxValues) :
           /\ values' = vs
           /\ words' = <<vs>>
    /\ result' = <<>>
    /\ vk' = 0
    /\ vpc' = "indices"
    /\ UNCHANGED <<vocab_list, unk_idx, idx, filter_token_list, possible_unk_token>>
    /\ UNCHANGED <<segVars, bpeVars>>

\* One iteration of lookup_indices_1d's loop.
LookupIndicesStep ==
    /\ vpc = "indices"
    /\ vk < Len(values)
    /\ result' = Append(result, DictGet(idx, values[vk + 1], unk_idx))
    /\ vk' = vk + 1
    /\ UNCHANGED <<vocab_list, unk_idx, idx, values, filter_token_list,
                   possible_unk_token, words, vpc>>
    /\ UNCHANGED <<segVars, bpeVars>>

\* lookup_indices_1d returns, and its result is handed to lookup_words_1d
\* with the default filter and no replacement (the round trip).
CallLookupWordsOfIndices ==
    /\ vpc = "indices"
    /\ ~(vk < Len(values))
    /\ values' = result
    /\ filter_token_list' = <<>>
    /\ possible_unk_token' = <<>>
    /\ result' = <<>>
    /\ vk' = 0
    /\ vpc' = "words"
    /\ UNCHANGED <<vocab_list, unk_idx, idx, words>>
    /\ UNCHANGED <<segVars, bpeVars>>

\* A call of lookup_words_1d(values, filter_token_list, possible_unk_token).
CallLookupWords ==
    /\ vpc = "ready"
    /\ \E ids \in SeqsUpTo(Ids, MaxValues), f \in Filters,
          put \in {<<>>, <<UnkReplacement>>} :
           /\ values' = ids
           /\ filter_token_list' = f
           /\ possible_unk_token' = put
    /\ result' = <<>>
    /\ vk' = 0
    /\ vpc' = "words"
    /\ UNCHANGED <<vocab_list, unk_idx, idx, words>>
    /\ UNCHANGED <<segVars, bpeVars>>

\* One iteration of lookup_words_1d's loop; an index error ends the call.
LookupWordsStep ==
    /\ vpc = "words"
    /\ vk < Len(values)
    /\ LET value == values[vk + 1]
       IN  IF WordRaises(vocab_list, unk_idx, filter_token_list,
                         possible_unk_token, value)
           THEN /\ vpc' = "error"
                /\ UNCHANGED <<result, vk>>
           ELSE /\ result' = result \o WordEmitted(vocab_list, unk_idx,
                                 filter_token_list, possible_unk_token, value)
                /\ vk' = vk + 1
                /\ vpc' = vpc
    /\ UNCHANGED <<vocab_list, unk_idx, idx, values, filter_token_list,
                   possible_unk_token, words>>
    /\ UNCHANGED <<segVars, bpeVars>>

LookupWordsReturn ==
    /\ vpc = "words"
    /\ ~(vk < Len(values))
    /\ vpc' = "done"
    /\ UNCHANGED <<vocab_list, unk_idx, idx, values, filter_token_list,
                   possible_unk_token, result, vk, words>>
    /\ UNCHANGED <<segVars, bpeVars>>

---------------------------------------------------------------------------
\* BPE.load_vocab

\* Python's str.isspace on the code points below 256.
IsSpace(c) == c \in {9, 10, 11, 12, 13, 28, 29, 30, 31, 32, 133, 160}

RECURSIVE LStrip(_)
LStrip(line) ==
    IF line # <<>> /\ IsSpace(Head(line)) THEN LStrip(Tail(line)) ELSE line

RECURSIVE RStrip(_)
RStrip(line) ==
    IF line # <<>> /\ IsSpace(Last(line))
    THEN RStrip(SubSeq(line, 1, Len(line) - 1))
    ELSE line

\* line.strip()
Strip(line) == RStrip(LStrip(line))

\* x.split(maxsplit=1)[0] of a stripped, non-empty x: up to the first space.
RECURSIVE FirstField(_)
FirstField(x) ==
    IF x = <<>> \/ IsSpace(Head(x)) THEN <<>>
    ELSE <<Head(x)>> \o FirstField(Tail(x))

\* list(read_words(file)): the first field of every non-blank line.
RECURSIVE read_words(_)
read_words(lines) ==
    IF lines = <<>> THEN <<>>
    ELSE IF Strip(Head(lines)) = <<>> THEN read_words(Tail(lines))
    ELSE <<FirstField(Strip(Head(lines)))>> \o read_words(Tail(lines))

\* Score with the position itself as the score: the last line scores highest.
ScoreByIndex(num_words, n) == n

\* The score of the word at 0-based position n of num_words words.
Score(num_words, n) == num_words - n

\* {word: num_words - i for i, word in enumerate(words)}: a later duplicate wins.
load_vocab(file) ==
    LET file_words == read_words(file)
        num_words == Len(file_words)
    IN  [w \in Range(file_words) |->
            Score(num_words, BuildIdx(file_words)[w])]

\* The vocab file of the class docstring, line by line (line feeds kept).
DocVocabFile ==
    << <<10>>,
       <<32, 32, 32, 32, 104, 101, 108, 108, 111, 95, 69, 79, 87, 32, 50, 48, 10>>,
       <<32, 32, 32, 32, 119, 111, 114, 108, 100, 95, 69, 79, 87, 32, 49, 56, 10>>,
       <<32, 32, 32, 32, 116, 104, 32, 32, 49, 55, 10>>,
       <<32, 32, 32, 32, 105, 115, 95, 69, 79, 87, 32, 49, 54, 10>>,
       <<32, 32, 32, 32, 98, 112, 101, 95, 69, 79, 87, 32, 49, 53, 10>>,
       <<32, 32, 32, 32, 33, 32, 49, 52, 10>>,
       <<32, 32, 32, 32, 104, 32, 49, 51, 10>>,
       <<32, 32, 32, 32, 116, 32, 54, 10>>,
       <<32, 32, 32, 32, 115, 95, 69, 79, 87, 32, 50, 10>>,
       <<32, 32, 32, 32, 105, 32, 45, 49, 10>>,
       <<32, 32, 32, 32, 105, 105, 32, 45, 50, 10>>,
       <<32, 32, 32, 32>> >>

\* The same entries as a dictionary whose priorities are the file's second
\* column, as BPE.__init__ takes one.
DocVocabAsWritten ==
    (<<104, 101, 108, 108, 111, 95, 69, 79, 87>> :> 20)  \* hello_EOW
    @@ (<<119, 111, 114, 108, 100, 95, 69, 79, 87>> :> 18)  \* world_EOW
    @@ (<<116, 104>> :> 17)  \* th
    @@ (<<105, 115, 95, 69, 79, 87>> :> 16)  \* is_EOW
    @@ (<<98, 112, 101, 95, 69, 79, 87>> :> 15)  \* bpe_EOW
    @@ (<<33>> :> 14)  \* !
    @@ (<<104>> :> 13)  \* h
    @@ (<<116>> :> 6)  \* t
    @@ (<<115, 95, 69, 79, 87>> :> 2)  \* s_EOW
    @@ (<<105>> :> -1)  \* i
    @@ (<<105, 105>> :> -2)  \* ii

\* "_EOW", the default of BPE.__init__.
DefaultEow == <<95, 69, 79, 87>>

\* ["iiiis"] and ["hello", "world", "this", "is", "bpe"]
DocTokensI == <<<<105, 105, 105, 105, 115>>>>
DocTokensHello ==
    <<<<104, 101, 108, 108, 111>>,
      <<119, 111, 114, 108, 100>>,
      <<116, 104, 105, 115>>,
      <<105, 115>>,
      <<98, 112, 101>>>>

\* The docstring's results: ["ii", "i", "is_EOW"] and
\* ["hello_EOW", "world_EOW", "th", "is_EOW", "is_EOW", "bpe_EOW"].
DocResultI == <<<<105, 105>>, <<105>>, <<105, 115, 95, 69, 79, 87>>>>
DocResultHello ==
    <<<<104, 101, 108, 108, 111, 95, 69, 79, 87>>,
      <<119, 111, 114, 108, 100, 95, 69, 79, 87>>,
      <<116, 104>>,
      <<105, 115, 95, 69, 79, 87>>,
      <<105, 115, 95, 69, 79, 87>>,
      <<98, 112, 101, 95, 69, 79, 87>>>>

---------------------------------------------------------------------------
\* BPE.bpe_token

NOT_IN_VOCAB == -1

\* self.vocab.get(key) is not None
InVocab(v, key) == key \in DOMAIN v

\* KeepTrimming looking up the last character without the marker.
KeepTrimmingBare(v, e, p) == Len(p) > 0 /\ ~InVocab(v, Last(p))

\* The condition of the loop that pops trailing characters:
\* len(parts) > 0 and parts[-1] + self.eow is not a key.
KeepTrimming(v, e, p) == Len(p) > 0 /\ ~InVocab(v, Last(p) \o e)

\* parts[-1] += self.eow
AttachEow(p, e) == [p EXCEPT ![Len(p)] = @ \o e]

\* FilterDrops with the filter pass left out.
FilterDropsNothing(v, part) == FALSE

\* The filter loop's test of parts[i]: it is not a key.
FilterDrops(v, part) == ~InVocab(v, part)

\* PairCount with the last pair left out of the scan.
PairCountShort(p) == Len(p) - 2

\* The number of adjacent pairs the scan visits: range(len(parts) - 1).
PairCount(p) == Len(p) - 1

\* Better with >= for >: a later pair displaces an equal earlier one.
BetterOrEqual(pair_value, max_pair_value) == pair_value >= max_pair_value

\* pair_value > max_pair_value
Better(pair_value, max_pair_value) == pair_value > max_pair_value

\* self.vocab.get(parts[n] + parts[n + 1], NOT_IN_VOCAB)
PairValue(v, p, n) == DictGet(v, p[n + 1] \o p[n + 2], NOT_IN_VOCAB)

\* The scan of the adjacent pairs from pair_index n on, as
\* <<max_pair_index, max_pair_value>>.
RECURSIVE ScanPairs(_, _, _, _, _)
ScanPairs(v, p, n, best_index, best_value) ==
    IF n < PairCount(p)
    THEN IF Better(PairValue(v, p, n), best_value)
         THEN ScanPairs(v, p, n + 1, n, PairValue(v, p, n))
         ELSE ScanPairs(v, p, n + 1, best_index, best_value)
    ELSE <<best_index, best_value>>

MaxPair(v, p) == ScanPairs(v, p, 0, 0, NOT_IN_VOCAB)

\* Combine keeping the second element of the pair: parts[n + 1:] for parts[n + 2:].
CombineKeepSecond(p, n) ==
    SubSeq(p, 1, n) \o <<p[n + 1] \o p[n + 2]>> \o SubSeq(p, n + 2, Len(p))

\* parts[:n] + [p1 + p2] + parts[n + 2:]
Combine(p, n) ==
    SubSeq(p, 1, n) \o <<p[n + 1] \o p[n + 2]>> \o SubSeq(p, n + 3, Len(p))

\* bpe_token as a function of the table, the marker and the word: the loops
\* below are the loops the actions step through.
RECURSIVE Trim(_, _, _)
Trim(v, e, p) ==
    IF KeepTrimming(v, e, p) THEN Trim(v, e, Pop(p, Len(p) - 1)) ELSE p

RECURSIVE FilterFrom(_, _, _)
FilterFrom(v, p, n) ==
    IF n < Len(p)
    THEN IF FilterDrops(v, p[n + 1])
         THEN FilterFrom(v, Pop(p, n), n)
         ELSE FilterFrom(v, p, n + 1)
    ELSE p

RECURSIVE MergeLoop(_, _)
MergeLoop(v, p) ==
    IF Len(p) > 1 /\ MaxPair(v, p)[2] # NOT_IN_VOCAB
    THEN MergeLoop(v, Combine(p, MaxPair(v, p)[1]))
    ELSE p

bpe_token(v, e, t) ==
    IF InVocab(v, t \o e) THEN <<t \o e>>
    ELSE LET trimmed == Trim(v, e, utf8_chars(t))
         IN  IF Len(trimmed) = 0 THEN trimmed
             ELSE MergeLoop(v, FilterFrom(v, AttachEow(trimmed, e), 0))

---------------------------------------------------------------------------
\* The inputs of the BPE model.

\* 'a' and U+00E9 (two bytes): the characters the model's words are made of.
Chars == {<<97>>, <<195, 169>>}
\* The marker of the model's tables: "_".
ShortEow == <<95>>
\* The keys the model's tables are drawn from, with U+00E9 written e':
\* a, a_, e'_, aa, ae'_.  e' alone is never a key: the filter drops it.
CandidateKeys ==
    {<<97>>, <<97, 95>>, <<195, 169, 95>>, <<97, 97>>, <<97, 195, 169, 95>>}
Priorities == {-1, 0, 1}

Tables ==
    UNION {[K -> Priorities] :
             K \in {S \in SUBSET CandidateKeys : Cardinality(S) <= MaxTableSize}}

Words == {Flatten(cs) : cs \in SeqsUpTo(Chars, MaxWordLen)}

\* BPE.__init__ / BPE.from_vocab_file, and the call tokenize(tokens).
InitBpe ==
    /\ SegIdle /\ VocIdle
    /\ \/ /\ vocab \in Tables
          /\ eow = ShortEow
          /\ tokens \in {<<w>> : w \in Words}
       \/ /\ vocab \in {DocVocabAsWritten, load_vocab(DocVocabFile)}
          /\ eow = DefaultEow
          /\ tokens \in {DocTokensI, DocTokensHello}
    /\ tk = 0 /\ bpe_tokens = <<>>
    /\ token = <<>> /\ parts = <<>> /\ i = 0 /\ should_break = FALSE
    /\ merges = 0 /\ before = <<>> /\ max_pair_index = 0
    /\ pc = "tokenize"

\* tokenize: the next token is handed to bpe_token.
TokenizeNext ==
    /\ pc = "tokenize"
    /\ tk < Len(tokens)
    /\ token' = tokens[tk + 1]
    /\ parts' = <<>> /\ i' = 0 /\ should_break' = FALSE
    /\ merges' = 0 /\ before' = <<>> /\ max_pair_index' = 0
    /\ pc' = "full_token"
    /\ UNCHANGED <<vocab, eow, tokens, tk, bpe_tokens>>
    /\ UNCHANGED <<segVars, vocVars>>

\* The whole token with the marker is in the table, or it is split.
FullToken ==
    /\ pc = "full_token"
    /\ IF InVocab(vocab, token \o eow)
       THEN parts' = <<token \o eow>> /\ pc' = "return"
       ELSE parts' = utf8_chars(token) /\ pc' = "trim"
    /\ UNCHANGED <<vocab, eow, tokens, tk, bpe_tokens, token, i, should_break,
                   merges, before, max_pair_index>>
    /\ UNCHANGED <<segVars, vocVars>>

\* One iteration of the trimming loop: parts.pop().
TrimPop ==
    /\ pc = "trim"
    /\ KeepTrimming(vocab, eow, parts)
    /\ parts' = Pop(parts, Len(parts) - 1)
    /\ UNCHANGED <<vocab, eow, tokens, tk, bpe_tokens, token, i, should_break,
                   merges, before, max_pair_index, pc>>
    /\ UNCHANGED <<segVars, vocVars>>

\* The trimming loop ends: return parts if empty, else attach the marker.
TrimEnd ==
    /\ pc = "trim"
    /\ ~KeepTrimming(vocab, eow, parts)
    /\ IF Len(parts) = 0
       THEN parts' = parts /\ pc' = "return"
       ELSE parts' = AttachEow(parts, eow) /\ pc' = "filter"
    /\ i' = 0
    /\ UNCHANGED <<vocab, eow, tokens, tk, bpe_tokens, token, should_break,
                   merges, before, max_pair_index>>
    /\ UNCHANGED <<segVars, vocVars>>

\* One iteration of the filter loop.
FilterStep ==
    /\ pc = "filter"
    /\ i < Len(parts)
    /\ IF FilterDrops(vocab, parts[i + 1])
       THEN parts' = Pop(parts, i) /\ i' = i
       ELSE parts' = parts /\ i' = i + 1
    /\ UNCHANGED <<vocab, eow, tokens, tk, bpe_tokens, token, should_break,
                   merges, before, max_pair_index, pc>>
    /\ UNCHANGED <<segVars, vocVars>>

FilterEnd ==
    /\ pc = "filter"
    /\ ~(i < Len(parts))
    /\ should_break' = FALSE
    /\ pc' = "merge"
    /\ UNCHANGED <<vocab, eow, tokens, tk, bpe_tokens, token, parts, i,
                   merges, before, max_pair_index>>
    /\ UNCHANGED <<segVars, vocVars>>

\* One iteration of the merge loop: scan the pairs, then stop or combine.
\* before and merges record the parts the iteration scanned and the number
\* of iterations that combined a pair.
MergeIteration ==
    /\ pc = "merge"
    /\ Len(parts) > 1 /\ ~should_break
    /\ LET best == MaxPair(vocab, parts)
       IN  /\ max_pair_index' = best[1]
           /\ IF best[2] = NOT_IN_VOCAB
              THEN /\ should_break' = TRUE
                   /\ UNCHANGED <<parts, merges>>
              ELSE /\ parts' = Combine(parts, best[1])
                   /\ merges' = merges + 1
                   /\ UNCHANGED should_break
    /\ before' = parts
    /\ UNCHANGED <<vocab, eow, tokens, tk, bpe_tokens, token, i, pc>>
    /\ UNCHANGED <<segVars, vocVars>>

MergeEnd ==
    /\ pc = "merge"
    /\ ~(Len(parts) > 1 /\ ~should_break)
    /\ pc' = "return"
    /\ UNCHANGED <<vocab, eow, tokens, tk, bpe_tokens, token, parts, i,
                   should_break, merges, before, max_pair_index>>
    /\ UNCHANGED <<segVars, vocVars>>

\* bpe_token returns parts; tokenize appends them.
Return ==
    /\ pc = "return"
    /\ bpe_tokens' = bpe_tokens \o parts
    /\ tk' = tk + 1
    /\ pc' = "tokenize"
    /\ UNCHANGED <<vocab, eow, tokens, token, parts, i, should_break,
                   merges, before, max_pair_index>>
    /\ UNCHANGED <<segVars, vocVars>>

TokenizeReturn ==
    /\ pc = "tokenize"
    /\ ~(tk < Len(tokens))
    /\ pc' = "done"
    /\ UNCHANGED <<vocab, eow, tokens, tk, bpe_tokens, token, parts, i,
                   should_break, merges, before, max_pair_index>>
    /\ UNCHANGED <<segVars, vocVars>>

---------------------------------------------------------------------------
\* Specifications: one per component, the other components idle.

NextSeg ==
    \/ Utf8Step
    \/ Utf8Return

SpecSeg == InitSeg /\ [][NextSeg]_vars

NextVoc ==
    \/ CallLookupIndices
    \/ LookupIndicesStep
    \/ CallLookupWordsOfIndices
    \/ CallLookupWords
    \/ LookupWordsStep
    \/ LookupWordsReturn

SpecVoc == InitVoc /\ [][NextVoc]_vars

NextBpe ==
    \/ TokenizeNext
    \/ FullToken
    \/ TrimPop
    \/ TrimEnd
    \/ FilterStep
    \/ FilterEnd
    \/ MergeIteration
    \/ MergeEnd
    \/ Return
    \/ TokenizeReturn

SpecBpe == InitBpe /\ [][NextBpe]_vars

\* bpe_token is sequential code: a step that can be taken is taken.
FairSpecBpe == SpecBpe /\ WF_vars(NextBpe)

---------------------------------------------------------------------------
\* Properties.

\* The table without its entries of negative priority.
StripNegative(v) == [k \in {x \in DOMAIN v : v[x] >= 0} |-> v[k]]

\* x ends with e.
EndsWith(x, e) == Len(x) >= Len(e) /\ SubSeq(x, Len(x) - Len(e) + 1, Len(x)) = e

\* bpe_token did not return on its first test (the whole word is no key).
PastFullToken == ~InVocab(vocab, token \o eow)

\* No character of the word, with the marker attached, is a key.
NoCharAnchors == \A c \in Range(utf8_chars(token)) : ~InVocab(vocab, c \o eow)

\* The states of one call of bpe_token.
InBpeToken == pc \in {"full_token", "trim", "filter", "merge", "return"}

\* C1 as stated: with the docstring's table, priorities as written (i: -1,
\* ii: -2), and the marker "_EOW", tokenize(["iiiis"]) returns
\* ["ii", "i", "is_EOW"].
C1_AsWritten ==
    (pc = "done" /\ vocab = DocVocabAsWritten /\ eow = DefaultEow
        /\ tokens = DocTokensI)
    => bpe_tokens = DocResultI

\* C1 amended: tokenize(["iiiis"]) returns ["ii", "i", "is_EOW"] with the
\* table load_vocab builds from the docstring's file (priorities 11 down to 1
\* by line, the second column ignored); with the priorities as written it
\* returns ["i", "i", "i", "is_EOW"].
C1_Loaded ==
    (pc = "done" /\ eow = DefaultEow /\ tokens = DocTokensI)
    => /\ vocab = load_vocab(DocVocabFile) => bpe_tokens = DocResultI
       /\ vocab = DocVocabAsWritten
            => bpe_tokens = <<<<105>>, <<105>>, <<105>>, DocResultI[3]>>

C1_Witness ==
    /\ pc = "done" /\ eow = DefaultEow /\ tokens = DocTokensI
    /\ vocab = load_vocab(DocVocabFile)
    /\ vocab[<<105>>] = 2 /\ vocab[<<105, 105>>] = 1
    /\ bpe_tokens = DocResultI

\* C2: an entry of negative priority is functionally absent: bpe_token
\* returns what it returns with the table stripped of its negative entries.
C2_NegativeAbsent ==
    pc = "return" => parts = bpe_token(StripNegative(vocab), eow, token)

\* What C3 says lookup_words_1d emits for the ids.
RECURSIVE ClaimedWords(_, _, _, _, _)
ClaimedWords(l, unk, filter, put, ids) ==
    IF ids = <<>> THEN <<>>
    ELSE (IF Head(ids) \in Range(filter) THEN <<>>
          ELSE IF 0 <= Head(ids) /\ Head(ids) < Len(l) THEN <<l[Head(ids) + 1]>>
          ELSE IF put # <<>> THEN <<put[1]>>
          ELSE <<l[unk + 1]>>)
         \o ClaimedWords(l, unk, filter, put, Tail(ids))

\* C3: with unk_idx in range, lookup_words_1d never fails, and for every id
\* not in filter_ids it emits tokens[id] if 0 <= id < len(tokens), else
\* unk_replacement when provided, else tokens[unk_idx].
C3_OutOfRangeIsUnk ==
    (vpc \in {"words", "done", "error"}
        /\ 0 <= unk_idx /\ unk_idx < Len(vocab_list))
    => /\ vpc # "error"
       /\ result = ClaimedWords(vocab_list, unk_idx, filter_token_list,
                                possible_unk_token, SubSeq(values, 1, vk))

\* C4 as stated: if no character c of the word has c + EOW as a key,
\* bpe_token returns the empty sequence.
C4_AsStated == (pc = "return" /\ NoCharAnchors) => parts = <<>>

\* C4 amended: if no character c of the word has c + EOW as a key and
\* word + EOW is not a key either, bpe_token returns the empty sequence.
C4_NoAnchorEmpty ==
    (pc = "return" /\ NoCharAnchors /\ PastFullToken) => parts = <<>>

C4_Witness ==
    /\ pc = "return" /\ NoCharAnchors /\ PastFullToken
    /\ Len(utf8_chars(token)) >= 2
    /\ \E c \in Range(utf8_chars(token)) : InVocab(vocab, c)
    /\ parts = <<>>

Unique(l) == Cardinality(Range(l)) = Len(l)

\* The call of lookup_words_1d is the round trip of lookup_indices_1d(words).
RoundTrip == words # <<>> /\ vpc \in {"words", "done", "error"}

\* C5 as stated: for unique tokens and words whose ids are all within
\* [0, len(tokens)), lookup_words_1d(lookup_indices_1d(words)) = words.
C5_AsStated ==
    (RoundTrip /\ vpc = "done" /\ Unique(vocab_list)
        /\ \A n \in 1..Len(values) : 0 <= values[n] /\ values[n] < Len(vocab_list))
    => result = words[1]

\* C5 amended: for unique tokens and words that are all tokens of the
\* vocabulary, the round trip does not fail and returns words.
C5_RoundTrip ==
    (RoundTrip /\ vpc \in {"done", "error"} /\ Unique(vocab_list)
        /\ Range(words[1]) \subseteq Range(vocab_list))
    => (vpc = "done" /\ result = words[1])

C5_Witness ==
    /\ RoundTrip /\ vpc = "done" /\ Unique(vocab_list)
    /\ Range(words[1]) \subseteq Range(vocab_list)
    /\ Len(words[1]) = 2 /\ words[1][1] # words[1][2]
    /\ values = <<2, 0>>
    /\ result = words[1]

\* The width of a character by its start byte.
ClassWidth(b) ==
    CASE b \in 0..127 -> 1
      [] b \in 128..223 -> 2
      [] b \in 224..239 -> 3
      [] b \in 240..247 -> 4
      [] b \in 248..251 -> 5
      [] b \in 252..253 -> 6
      [] b = 254 -> 7
      [] b = 255 -> 8

\* C6: utf8_chars reads no byte past the end, makes at most one pass per
\* byte, and loses no bytes: every segment is non-empty, the segments
\* concatenated are the input read so far (the whole input at the return),
\* and each segment has the width of its start byte, except a final segment
\* holding the bytes that remain.
C6_Segments ==
    upc \in {"loop", "done"} =>
        /\ si >= 0
        /\ Len(chars) <= Len(s)
        /\ Flatten(chars) = SubSeq(s, 1, Min(si, Len(s)))
        /\ upc = "done" => Flatten(chars) = s
        /\ \A n \in 1..Len(chars) :
              /\ chars[n] # <<>>
              /\ \/ Len(chars[n]) = ClassWidth(chars[n][1])
                 \/ /\ n = Len(chars)
                    /\ si > Len(s)
                    /\ Len(chars[n]) < ClassWidth(chars[n][1])

C6_Witness ==
    /\ upc = "done"
    /\ Len(chars) = 3
    /\ Len(chars[1]) = 1 /\ Len(chars[2]) = 2
    /\ Len(chars[3]) = 2 /\ ClassWidth(chars[3][1]) = 3
    /\ Flatten(chars) = s

\* The greatest candidate priority over the adjacent pairs of p.
MaxCandidate(v, p) ==
    CHOOSE m \in {PairValue(v, p, n) : n \in 0..(Len(p) - 2)} :
        \A n \in 0..(Len(p) - 2) : m >= PairValue(v, p, n)

\* C7: an iteration of the merge loop that merges does so at the lowest
\* index whose candidate priority is the greatest over all adjacent pairs;
\* the two elements become their concatenation there and the others keep
\* their order.
C7_LeftmostMax ==
    [][(pc = "merge" /\ merges' = merges + 1) =>
         \E k \in 0..(Len(parts) - 2) :
            /\ PairValue(vocab, parts, k) = MaxCandidate(vocab, parts)
            /\ \A j \in 0..(k - 1) :
                  PairValue(vocab, parts, j) < MaxCandidate(vocab, parts)
            /\ Len(parts') = Len(parts) - 1
            /\ \A j \in 1..k : parts'[j] = parts[j]
            /\ parts'[k + 1] = parts[k + 1] \o parts[k + 2]
            /\ \A j \in (k + 3)..Len(parts) : parts'[j - 1] = parts[j]]_vars

\* The last iteration merged, two pairs tied for the greatest priority, and
\* the lower one was merged.
C7_Witness ==
    /\ pc = "merge" /\ merges >= 1 /\ Len(parts) = Len(before) - 1
    /\ \E j \in (max_pair_index + 1)..(Len(before) - 2) :
          PairValue(vocab, before, j) = MaxCandidate(vocab, before)
    /\ PairValue(vocab, before, max_pair_index) = MaxCandidate(vocab, before)
    /\ parts[max_pair_index + 1]
          = before[max_pair_index + 1] \o before[max_pair_index + 2]

\* C8 as stated: a sequence returned by the merge loop has no two adjacent
\* elements whose concatenation is a key.
C8_AsStated ==
    (pc = "return" /\ PastFullToken)
    => \A n \in 1..(Len(parts) - 1) : ~InVocab(vocab, parts[n] \o parts[n + 1])

\* C8 amended: a sequence returned by the merge loop has no two adjacent
\* elements whose concatenation is a key of non-negative priority.
C8_NoMergeLeft ==
    (pc = "return" /\ PastFullToken)
    => \A n \in 1..(Len(parts) - 1) :
          InVocab(vocab, parts[n] \o parts[n + 1])
              => vocab[parts[n] \o parts[n + 1]] < 0

C8_Witness ==
    /\ pc = "return" /\ PastFullToken /\ merges >= 1 /\ Len(parts) >= 2
    /\ \E n \in 1..(Len(parts) - 1) : InVocab(vocab, parts[n] \o parts[n + 1])

\* The merge loop is left with one element or with no candidate above -1.
LoopEndsExhausted ==
    (pc = "merge" /\ pc' = "return")
    => \/ Len(parts) <= 1
       \/ \A n \in 0..(Len(parts) - 2) : PairValue(vocab, parts, n) <= -1

\* C9 as stated, its bound: the merging iterations of a call are at most
\* the character count of the word minus one.
C9_AsStated == InBpeToken => merges <= Len(utf8_chars(token)) - 1

\* C9 amended: bpe_token terminates; a merging iteration shortens parts by
\* exactly one; the loop ends with one element left or no candidate above
\* -1; the merging iterations are at most the character count minus one for
\* a word of at least one character, and none for the empty word.
C9_Terminates ==
    /\ [](InBpeToken =>
            IF Len(utf8_chars(token)) = 0 THEN merges = 0
            ELSE merges <= Len(utf8_chars(token)) - 1)
    /\ [][(pc = "merge" /\ merges' = merges + 1)
            => Len(parts') = Len(parts) - 1]_vars
    /\ [][LoopEndsExhausted]_vars
    /\ <>(pc = "done")

\* A word of four characters, none dropped, merged twice and returned.
C9_Witness ==
    /\ pc = "return" /\ PastFullToken
    /\ Len(utf8_chars(token)) = 4 /\ merges = 2 /\ Len(parts) = 2

\* Every element of parts is a key, and the last one ends with the marker.
KeysAndMarker ==
    /\ \A n \in 1..Len(parts) : InVocab(vocab, parts[n])
    /\ parts # <<>> => EndsWith(Last(parts), eow)

\* C10 as stated: every element bpe_token returns is a key and the last one
\* ends with the marker, and this holds after trimming (the marker attached,
\* the filter pass not yet begun), after the filter pass and after every
\* merge.
C10_AsStated ==
    /\ (pc = "filter" /\ i = 0) => KeysAndMarker
    /\ pc \in {"merge", "return"} => KeysAndMarker
    /\ pc = "done" => \A n \in 1..Len(bpe_tokens) : InVocab(vocab, bpe_tokens[n])

\* C10 amended: every element bpe_token returns is a key and the last one
\* ends with the marker; this holds after the filter pass and after every
\* merge.  After trimming, and throughout the filter pass, only the last
\* element and the elements the pass has gone over are keys, the last one
\* ending with the marker.
C10_KeysAndMarker ==
    /\ pc \in {"merge", "return"} => KeysAndMarker
    /\ pc = "filter" =>
          /\ parts # <<>>
          /\ InVocab(vocab, Last(parts))
          /\ EndsWith(Last(parts), eow)
          /\ i <= Len(parts)
          /\ \A n \in 1..i : InVocab(vocab, parts[n])
    /\ pc = "done" => \A n \in 1..Len(bpe_tokens) : InVocab(vocab, bpe_tokens[n])

\* A character was dropped by the filter and a pair was merged.
C10_Witness ==
    /\ pc = "return" /\ PastFullToken /\ merges >= 1 /\ Len(parts) >= 2
    /\ Len(utf8_chars(token)) > Len(parts) + merges
    /\ \E c \in Range(utf8_chars(token)) : ~InVocab(vocab, c)

=============================================================================
